---------------------------- MODULE Spec2Model ----------------------------
(***************************************************************************)
(* Model of src/app.py: the encoding-resilient reader, the HTML event-log  *)
(* extractor, the syslog/text extractor, the JSON-line link extractor and  *)
(* the JSON-line equipment extractor with its paginating table builder.    *)
(*                                                                         *)
(* Strings that the code orders (entry ids, timestamps) are sequences of   *)
(* digit characters, so that the lexical order pandas applies to a string  *)
(* column and the numeric order of the values are two different things.    *)
(***************************************************************************)
EXTENDS Integers, Sequences, FiniteSets, TLC

VARIABLES
    category,        \* which extractor the batch is handed to
    file_addresses,  \* the batch: a sequence of file paths, in upload order
    storage,         \* the paths that exist in the temporary directory
    content,         \* what each path holds
    index,           \* number of loop iterations of the extractor completed
    pc,              \* position of the extractor: running / paging / returned / raised
    sheets,          \* the worksheets the extractor created, each a sequence of rows
    summary_data,    \* the summary list shared by the extractors
    all_items,       \* link / equipment: records collected so far
    items_df,        \* equipment: records not yet written by the paging loop
    row_count,       \* equipment: rows written to the current sheet
    columns_per_sheet, \* equipment: maximum data rows per sheet
    encodings,       \* reader: the candidate list the reader is called with
    result           \* reader: what the call returned or raised

vars == <<category, file_addresses, storage, content, index, pc, sheets,
          summary_data, all_items, items_df, row_count, columns_per_sheet,
          encodings, result>>

-----------------------------------------------------------------------------
(* Bounds *)

MaxFiles == 3

Paths == {"p1", "p2"}

-----------------------------------------------------------------------------
(* Sequences and strings *)

SeqsUpTo(S, n) == UNION {[1..k -> S] : k \in 0..n}

Range(s) == {s[i] : i \in 1..Len(s)}

\* Python's str comparison a < b on strings of digit characters.
RECURSIVE LexLess(_, _)
LexLess(a, b) ==
    IF b = <<>> THEN FALSE
    ELSE IF a = <<>> THEN TRUE
    ELSE IF Head(a) # Head(b) THEN Head(a) < Head(b)
    ELSE LexLess(Tail(a), Tail(b))

LexLeq(a, b) == a = b \/ LexLess(a, b)

\* int(s) for a string of digit characters.
RECURSIVE StrToInt(_)
StrToInt(s) ==
    IF s = <<>> THEN 0
    ELSE 10 * StrToInt(SubSeq(s, 1, Len(s) - 1)) + s[Len(s)]

-----------------------------------------------------------------------------
(* The encoding-resilient reader *)

Encodings == {"utf-8", "iso-8859-1", "windows-1252"}

DefaultEncodings == <<"utf-8", "iso-8859-1", "windows-1252">>

\* The sets of encodings under which some byte content decodes without error:
\* iso-8859-1 maps every byte, so it is in each of them.
ValidSets == {v \in SUBSET Encodings : "iso-8859-1" \in v}

\* Faulty variant: a failed candidate ends the loop instead of trying the next one.
RECURSIVE TryFirstOnly(_, _, _)
TryFirstOnly(exists, valid, encs) ==
    IF encs = <<>> THEN [status |-> "TypeError", enc |-> "none"]
    ELSE IF ~exists THEN [status |-> "FileNotFoundError", enc |-> "none"]
    ELSE IF Head(encs) \in valid THEN [status |-> "text", enc |-> Head(encs)]
    ELSE [status |-> "TypeError", enc |-> "none"]

\* for encoding in encodings: try open/read/return, except UnicodeDecodeError: next;
\* after the loop the code builds UnicodeDecodeError from a single argument,
\* which raises TypeError. open() of a missing file raises FileNotFoundError,
\* which the loop does not catch.
RECURSIVE read_file_with_multiple_encodings(_, _, _)
read_file_with_multiple_encodings(exists, valid, encs) ==
    IF encs = <<>> THEN [status |-> "TypeError", enc |-> "none"]
    ELSE IF ~exists THEN [status |-> "FileNotFoundError", enc |-> "none"]
    ELSE IF Head(encs) \in valid THEN [status |-> "text", enc |-> Head(encs)]
    ELSE read_file_with_multiple_encodings(exists, valid, Tail(encs))

-----------------------------------------------------------------------------
(* File contents of the HTML and syslog/text categories *)

\* The sort keys: an HTML entry id (\d+) or a syslog timestamp, as text.
Keys == {<<3>>, <<1, 2>>}

\* One pattern match. legal = FALSE: a captured group holds a control
\* character, which the worksheet refuses (IllegalCharacterError on append).
Events == [key : Keys, legal : BOOLEAN]

EventSeqs == SeqsUpTo(Events, 2)

\* A document: the matches of pattern1 in markup order, and the encodings
\* under which its bytes decode.
Docs ==
    {[events |-> e, valid |-> Encodings] : e \in EventSeqs}
    \cup {[events |-> <<[key |-> <<3>>, legal |-> TRUE]>>, valid |-> v] : v \in ValidSets}

HtmlHeader == [kind |-> "header", cols |-> "event_log"]

SyslogHeader == [kind |-> "header", cols |-> "syslog"]

\* re.findall(pattern1, content): the matches, tagged with their position.
findall(doc) ==
    [i \in 1..Len(doc.events) |->
        [kind |-> "data", key |-> doc.events[i].key, pos |-> i,
         legal |-> doc.events[i].legal]]

\* Faulty variant: the rows are left in markup order.
Unsorted(evs) == {evs}

\* df.sort_values(by=<a string column>): the orders an unstable sort on the
\* text of the key can produce.
sort_values(evs) ==
    {[i \in 1..Len(evs) |-> evs[p[i]]] :
        p \in {q \in [1..Len(evs) -> 1..Len(evs)] :
                 /\ \A i, j \in 1..Len(evs) : i # j => q[i] # q[j]
                 /\ \A i, j \in 1..Len(evs) :
                      i < j => LexLeq(evs[q[i]].key, evs[q[j]].key)}}

\* for r in dataframe_to_rows(df_sorted): ws.append(r) -- the rows reach the
\* sheet one by one until one is refused.
RECURSIVE append_rows(_, _, _)
append_rows(ws, rows, src) ==
    IF rows = <<>> THEN [ws |-> ws, exc |-> "none"]
    ELSE IF ~Head(rows).legal THEN [ws |-> ws, exc |-> "IllegalCharacterError"]
    ELSE append_rows(Append(ws, [kind |-> "data", src |-> src,
                                 key |-> Head(rows).key, pos |-> Head(rows).pos]),
                     Tail(rows), src)

\* Faulty variant: the file is left in storage.
keep_file(st, path) == st

\* os.remove(path) on an existing file.
os_remove(st, path) == st \ {path}

\* Faulty variant: a file without matches still gets its summary entry.
no_events_summary(summary, entry) == Append(summary, entry)

\* if not events: continue -- nothing is appended.
skip_file(summary, entry) == summary

\* The try block of one loop iteration of process_html_files /
\* process_log_files, up to its except clauses: the sheet and the summary
\* it leaves, and the exception it caught ("none" when it ran through).
try_block(ws, summary, path, i, entry, sorted) ==
    LET rd == read_file_with_multiple_encodings(path \in storage,
                                                content[path].valid, DefaultEncodings)
    IN  IF rd.status # "text"
        THEN [ws |-> ws, summary |-> summary, exc |-> rd.status]
        ELSE IF findall(content[path]) = <<>>
        THEN [ws |-> ws, summary |-> skip_file(summary, entry), exc |-> "none"]
        ELSE LET ap == append_rows(ws, sorted, i)
             IN  IF ap.exc # "none"
                 THEN [ws |-> ap.ws, summary |-> summary, exc |-> ap.exc]
                 ELSE [ws |-> ap.ws, summary |-> Append(summary, entry), exc |-> "none"]

-----------------------------------------------------------------------------
(* process_html_files and process_log_files *)

PriorSummaries == {<<>>, <<[kind |-> "prior"]>>}

InitFiles ==
    /\ category \in {"html", "log"}
    /\ file_addresses \in SeqsUpTo(Paths, MaxFiles) \ {<<>>}
    /\ storage = Range(file_addresses)
    /\ content \in [Paths -> Docs]
    /\ \A p \in Paths \ storage : content[p].events = <<>> /\ content[p].valid = Encodings
    /\ index = 0
    /\ pc = "running"
    /\ sheets = <<IF category = "html" THEN <<HtmlHeader>> ELSE <<SyslogHeader>> >>
    /\ summary_data \in PriorSummaries
    /\ all_items = <<>>
    /\ items_df = <<>>
    /\ row_count = 0
    /\ columns_per_sheet = 0
    /\ encodings = DefaultEncodings
    /\ result = [status |-> "none", enc |-> "none"]

\* One iteration of the loop of process_html_files: try / except / finally.
\* The except clauses swallow what the try block raised; the finally clause
\* removes the file, and os.remove of a missing path raises FileNotFoundError
\* out of the function.
ProcessHtmlFile ==
    /\ category = "html"
    /\ pc = "running"
    /\ index < Len(file_addresses)
    /\ LET i == index + 1
           path == file_addresses[i]
       IN  \E sorted \in sort_values(findall(content[path])) :
             LET r == try_block(sheets[1], summary_data, path, i,
                                [kind |-> "html", index |-> i, filename |-> path], sorted)
             IN  /\ sheets' = <<r.ws>>
                 /\ summary_data' = r.summary
                 /\ index' = i
                 /\ IF path \in storage
                    THEN /\ storage' = os_remove(storage, path)
                         /\ pc' = "running"
                    ELSE /\ storage' = storage
                         /\ pc' = "raised"
    /\ UNCHANGED <<category, file_addresses, content, all_items, items_df,
                   row_count, columns_per_sheet, encodings, result>>

\* One iteration of the loop of process_log_files (log and text categories).
ProcessLogFile ==
    /\ category = "log"
    /\ pc = "running"
    /\ index < Len(file_addresses)
    /\ LET i == index + 1
           path == file_addresses[i]
       IN  \E sorted \in sort_values(findall(content[path])) :
             LET r == try_block(sheets[1], summary_data, path, i,
                                [kind |-> "log", index |-> i, filename |-> path], sorted)
             IN  /\ sheets' = <<r.ws>>
                 /\ summary_data' = r.summary
                 /\ index' = i
                 /\ IF path \in storage
                    THEN /\ storage' = os_remove(storage, path)
                         /\ pc' = "running"
                    ELSE /\ storage' = storage
                         /\ pc' = "raised"
    /\ UNCHANGED <<category, file_addresses, content, all_items, items_df,
                   row_count, columns_per_sheet, encodings, result>>

\* The loop is over: the sheet is styled and the extractor returns.
FilesReturn ==
    /\ category \in {"html", "log"}
    /\ pc = "running"
    /\ index = Len(file_addresses)
    /\ pc' = "returned"
    /\ UNCHANGED <<category, file_addresses, storage, content, index, sheets,
                   summary_data, all_items, items_df, row_count,
                   columns_per_sheet, encodings, result>>

NextFiles == ProcessHtmlFile \/ ProcessLogFile \/ FilesReturn

SpecFiles == InitFiles /\ [][NextFiles]_vars

-----------------------------------------------------------------------------
(* The reader on its own, called with any candidate list *)

\* Candidate lists: the encodings in any order, without repetition.
EncodingLists ==
    {e \in SeqsUpTo(Encodings, 3) : \A i, j \in 1..Len(e) : i # j => e[i] # e[j]}

InitReader ==
    /\ category = "reader"
    /\ file_addresses = <<"p1">>
    /\ storage \in {{}, {"p1"}}
    /\ \E v \in ValidSets : content = [p \in Paths |-> [events |-> <<>>, valid |-> v]]
    /\ index = 0
    /\ pc = "running"
    /\ sheets = <<>>
    /\ summary_data = <<>>
    /\ all_items = <<>>
    /\ items_df = <<>>
    /\ row_count = 0
    /\ columns_per_sheet = 0
    /\ encodings \in EncodingLists
    /\ result = [status |-> "none", enc |-> "none"]

\* One call of the reader.
ReadFile ==
    /\ category = "reader"
    /\ pc = "running"
    /\ result' = read_file_with_multiple_encodings(
                     file_addresses[1] \in storage,
                     content[file_addresses[1]].valid, encodings)
    /\ pc' = IF result'.status = "text" THEN "returned" ELSE "raised"
    /\ UNCHANGED <<category, file_addresses, storage, content, index, sheets,
                   summary_data, all_items, items_df, row_count,
                   columns_per_sheet, encodings>>

NextReader == ReadFile

SpecReader == InitReader /\ [][NextReader]_vars

-----------------------------------------------------------------------------
(* JSON-line files: values, dictionaries, lines *)

MaxJsonFiles == 2

\* Largest rows-per-sheet threshold of the mixed batches (SpecJson).
MaxJsonThreshold == 2

\* Largest rows-per-sheet threshold of the pagination batches (SpecPaging).
MaxThreshold == 6

\* A JSON scalar: its type and its text as a sequence of tokens.
Str(toks) == [type |-> "str", text |-> toks]

Num(toks) == [type |-> "num", text |-> toks]

\* A nested JSON list.
Nested(toks) == [type |-> "list", text |-> toks]

EmptyDict == [k \in {} |-> Str(<<>>)]

\* Faulty variant: the item's own value wins over the parent's.
KeepItem(item, data) ==
    [k \in DOMAIN item \cup DOMAIN data |-> IF k \in DOMAIN item THEN item[k] ELSE data[k]]

\* item.update(data)
Update(item, data) ==
    [k \in DOMAIN item \cup DOMAIN data |-> IF k \in DOMAIN data THEN data[k] ELSE item[k]]

\* s.split(sep) on a string given as a sequence of tokens.
RECURSIVE Split(_, _)
Split(s, sep) ==
    IF s = <<>> THEN << <<>> >>
    ELSE IF Head(s) = sep THEN << <<>> >> \o Split(Tail(s), sep)
    ELSE LET rest == Split(Tail(s), sep)
         IN  << <<Head(s)>> \o Head(rest) >> \o Tail(rest)

NoItems == [kind |-> "absent", list |-> <<>>]

ItemList(l) == [kind |-> "list", list |-> l]

\* `items` holding a number instead of a list.
ItemScalar == [kind |-> "scalar", list |-> <<>>]

\* `items` holding a list whose entries are not objects.
ItemValues(l) == [kind |-> "values", list |-> l]

\* One line of a file. brace: re.search(r'\{.*\}', line) matches. stamp: the
\* text re.match(r'INFO - (...)') captures, <<>> when the line has no such
\* prefix. json: json.loads accepts the fragment. fields / items: the parsed
\* object, its `items` entry apart.
Line(brace, stamp, json, fields, items) ==
    [brace |-> brace, stamp |-> stamp, json |-> json, fields |-> fields, items |-> items]

Stamp1 == <<"2024-01-01", " ", "10:00:00">>

Stamp2 == <<"2024-01-02", " ", "11:30:00">>

PlainLine == Line(FALSE, <<>>, FALSE, EmptyDict, NoItems)

MalformedLine == Line(TRUE, Stamp1, FALSE, EmptyDict, NoItems)

ItemA1 == "a" :> Num(<<"1">>)

ItemA2 == "a" :> Num(<<"2">>)

NodeX == "node" :> Str(<<"X">>)

LinkLines ==
    { PlainLine,
      MalformedLine,
      Line(TRUE, <<>>, TRUE, NodeX, ItemList(<<ItemA1>>)),
      Line(TRUE, Stamp1, TRUE, NodeX, ItemList(<<ItemA1, ItemA2>>)),
      Line(TRUE, Stamp2, TRUE, NodeX @@ ("a" :> Num(<<"9">>)), ItemList(<<ItemA1>>)),
      Line(TRUE, Stamp1, TRUE, "Date" :> Str(<<"x">>), ItemList(<<ItemA2>>)),
      Line(TRUE, Stamp2, TRUE, NodeX, NoItems) }

MstFull == "messageSendTime" :>
    Str(<<"2024-01-01", "T", "10:00:00", ".", "123", "+", "07:00">>)

MstPlain == "messageSendTime" :> Str(<<"2024-01-02", "T", "11:30:00">>)

MstNoT == "messageSendTime" :> Str(<<"2024-01-01", " ", "10:00:00">>)

MstTwoT == "messageSendTime" :> Str(<<"2024-01-01", "T", "10:00:00", "T", "Z">>)

MstNum == "messageSendTime" :> Num(<<"1704103200">>)

EquipLines ==
    { PlainLine,
      MalformedLine,
      Line(TRUE, Stamp1, TRUE, MstFull @@ NodeX, ItemList(<<ItemA1, ItemA2>>)),
      Line(TRUE, <<>>, TRUE, MstPlain,
           ItemList(<<ItemA1 @@ ("equipmentItems" :> Nested(<<"e1", "e2">>))>>)),
      Line(TRUE, Stamp2, TRUE, NodeX, ItemList(<<ItemA1>>)),
      Line(TRUE, Stamp1, TRUE, MstNoT, ItemList(<<ItemA1>>)),
      Line(TRUE, Stamp1, TRUE, MstFull, NoItems) }

JsonDocs(cat) ==
    {[lines |-> l] : l \in SeqsUpTo(IF cat = "link" THEN LinkLines ELSE EquipLines, 2)}

-----------------------------------------------------------------------------
(* extract_link_data and process_link_files *)

NoData == [data |-> <<>>, exc |-> "none"]

\* Faulty variant: json.loads' error is not caught.
link_line_uncaught(line) ==
    IF ~line.brace \/ line.stamp = <<>> THEN NoData
    ELSE IF ~line.json THEN [data |-> <<>>, exc |-> "JSONDecodeError"]
    ELSE LET parts == Split(line.stamp, " ")
         IN  [data |-> <<[fields |-> Update(line.fields,
                                            ("Date" :> Str(parts[1])) @@ ("Time" :> Str(parts[2]))),
                         items |-> line.items]>>,
              exc |-> "none"]

\* The body of the loop of extract_link_data for one line: what it appends
\* to json_list, and the exception that leaves it.
link_line(line) ==
    IF ~line.brace \/ line.stamp = <<>> THEN NoData
    ELSE IF ~line.json THEN NoData
    ELSE LET parts == Split(line.stamp, " ")
         IN  [data |-> <<[fields |-> Update(line.fields,
                                            ("Date" :> Str(parts[1])) @@ ("Time" :> Str(parts[2]))),
                         items |-> line.items]>>,
              exc |-> "none"]

RECURSIVE extract_link_data(_)
extract_link_data(lines) ==
    IF lines = <<>> THEN NoData
    ELSE LET h == link_line(Head(lines))
         IN  IF h.exc # "none" THEN h
             ELSE LET t == extract_link_data(Tail(lines))
                  IN  [data |-> h.data \o t.data, exc |-> t.exc]

\* items = data.pop('items', [])
pop_items(data) == IF data.items.kind = "list" THEN data.items.list ELSE <<>>

\* for item in items: item.update(data); all_items.append(item)
merge_items(all, data) ==
    all \o [n \in 1..Len(pop_items(data)) |-> Update(pop_items(data)[n], data.fields)]

RECURSIVE merge_all(_, _)
merge_all(all, json_data) ==
    IF json_data = <<>> THEN all
    ELSE merge_all(merge_items(all, Head(json_data)), Tail(json_data))

\* pd.DataFrame(all_items) with Date and Time moved to the front: the header row.
Header(items) ==
    [kind |-> "header", first |-> <<"Date", "Time">>,
     rest |-> (UNION {DOMAIN items[n] : n \in 1..Len(items)}) \ {"Date", "Time"}]

DataRow(item) == [kind |-> "data", cells |-> item]

InitJson ==
    /\ category \in {"link", "equipment"}
    /\ file_addresses \in SeqsUpTo(Paths, MaxJsonFiles) \ {<<>>}
    /\ storage = Range(file_addresses)
    /\ content \in [Paths -> JsonDocs(category)]
    /\ \A p \in Paths \ storage : content[p].lines = <<>>
    /\ index = 0
    /\ pc = "running"
    /\ sheets = << <<>> >>
    /\ summary_data = <<[kind |-> "prior"]>>
    /\ all_items = <<>>
    /\ items_df = <<>>
    /\ row_count = 0
    /\ columns_per_sheet \in (IF category = "equipment" THEN 1..MaxJsonThreshold ELSE {0})
    /\ encodings = DefaultEncodings
    /\ result = [status |-> "none", enc |-> "none"]

\* Faulty variant: one summary row per file of the batch.
per_file_summary(summary, kind, n, files) ==
    summary \o [j \in 1..Len(files) |-> [kind |-> kind, index |-> j, filename |-> files[j]]]

\* summary_data.append([<number of files>, os.path.basename(file_path)]),
\* file_path being the loop variable after the loop: the last file.
batch_summary(summary, kind, n, files) ==
    Append(summary, [kind |-> kind, index |-> n, filename |-> files[Len(files)]])

\* One iteration of the loop over file_paths in process_link_files.
ProcessLinkFile ==
    /\ category = "link"
    /\ pc = "running"
    /\ index < Len(file_addresses)
    /\ LET path == file_addresses[index + 1]
           ex == extract_link_data(content[path].lines)
       IN  IF path \notin storage \/ ex.exc # "none"
           THEN /\ pc' = "raised"
                /\ UNCHANGED <<index, all_items>>
           ELSE /\ all_items' = merge_all(all_items, ex.data)
                /\ index' = index + 1
                /\ pc' = pc
    /\ UNCHANGED <<category, file_addresses, storage, content, sheets, summary_data,
                   items_df, row_count, columns_per_sheet, encodings, result>>

\* process_link_files after the loop: nothing is built for an empty record
\* set; otherwise the header, the rows and one summary row.
LinkBuild ==
    /\ category = "link"
    /\ pc = "running"
    /\ index = Len(file_addresses)
    /\ pc' = "returned"
    /\ IF all_items = <<>>
       THEN UNCHANGED <<sheets, summary_data>>
       ELSE /\ sheets' = << <<Header(all_items)>> \o
                            [n \in 1..Len(all_items) |-> DataRow(all_items[n])] >>
            /\ summary_data' = batch_summary(summary_data, "link",
                                             Len(file_addresses), file_addresses)
    /\ UNCHANGED <<category, file_addresses, storage, content, index, all_items,
                   items_df, row_count, columns_per_sheet, encodings, result>>

-----------------------------------------------------------------------------
(* extract_equipment_data, flatten_items and process_equipment_files *)

\* Faulty variant: json_list.append(data) runs whether or not messageSendTime is there.
equipment_line_keep(line) ==
    IF ~line.brace THEN NoData
    ELSE IF ~line.json THEN NoData
    ELSE IF "messageSendTime" \notin DOMAIN line.fields
    THEN [data |-> <<[fields |-> line.fields, items |-> line.items]>>, exc |-> "none"]
    ELSE LET mst == line.fields["messageSendTime"]
             parts == Split(mst.text, "T")
         IN  IF mst.type # "str" THEN [data |-> <<>>, exc |-> "AttributeError"]
             ELSE IF Len(parts) # 2 THEN [data |-> <<>>, exc |-> "ValueError"]
             ELSE LET time == Split(parts[2], "+")[1]
                  IN  [data |-> <<[fields |-> Update(line.fields,
                                      ("Date" :> Str(parts[1]))
                                      @@ ("Time" :> Str(Split(time, ".")[1]))),
                                  items |-> line.items]>>,
                       exc |-> "none"]

\* The body of the loop of extract_equipment_data for one line. Only
\* json.JSONDecodeError is caught; the two-name unpacking of split('T')
\* raises ValueError unless there is exactly one T.
equipment_line(line) ==
    IF ~line.brace THEN NoData
    ELSE IF ~line.json THEN NoData
    ELSE IF "messageSendTime" \notin DOMAIN line.fields THEN NoData
    ELSE LET mst == line.fields["messageSendTime"]
             parts == Split(mst.text, "T")
         IN  IF mst.type # "str" THEN [data |-> <<>>, exc |-> "AttributeError"]
             ELSE IF Len(parts) # 2 THEN [data |-> <<>>, exc |-> "ValueError"]
             ELSE LET time == Split(parts[2], "+")[1]
                  IN  [data |-> <<[fields |-> Update(line.fields,
                                      ("Date" :> Str(parts[1]))
                                      @@ ("Time" :> Str(Split(time, ".")[1]))),
                                  items |-> line.items]>>,
                       exc |-> "none"]

RECURSIVE extract_equipment_data(_)
extract_equipment_data(lines) ==
    IF lines = <<>> THEN NoData
    ELSE LET h == equipment_line(Head(lines))
         IN  IF h.exc # "none" THEN h
             ELSE LET t == extract_equipment_data(Tail(lines))
                  IN  [data |-> h.data \o t.data, exc |-> t.exc]

\* flatten_items: a copy of each item, its equipmentItems turned into text.
flatten_items(items) ==
    [n \in 1..Len(items) |->
        [k \in DOMAIN items[n] |->
            IF k = "equipmentItems" THEN Str(<<"repr">> \o items[n][k].text)
            ELSE items[n][k]]]

\* items = data.pop('items', []); if items: flatten, update, append.
merge_equipment_items(all, data) ==
    LET flat == flatten_items(pop_items(data))
    IN  all \o [n \in 1..Len(flat) |-> Update(flat[n], data.fields)]

\* What the items loop of process_equipment_files raises on one entry of
\* json_data: flatten_items iterates `items` (TypeError on a number) and
\* calls item.copy() on each entry (AttributeError unless it is an object).
\* Nothing around the loop catches either.
items_fault(data) ==
    IF data.items.kind = "scalar" THEN "TypeError"
    ELSE IF data.items.kind = "values" /\ data.items.list # <<>> THEN "AttributeError"
    ELSE "none"

RECURSIVE merge_equipment_all(_, _)
merge_equipment_all(all, json_data) ==
    IF json_data = <<>> THEN all
    ELSE merge_equipment_all(merge_equipment_items(all, Head(json_data)), Tail(json_data))

\* One iteration of the loop over file_paths in process_equipment_files.
ProcessEquipmentFile ==
    /\ category = "equipment"
    /\ pc = "running"
    /\ index < Len(file_addresses)
    /\ LET path == file_addresses[index + 1]
           ex == extract_equipment_data(content[path].lines)
       IN  IF \/ path \notin storage
              \/ ex.exc # "none"
              \/ \E n \in 1..Len(ex.data) : items_fault(ex.data[n]) # "none"
           THEN /\ pc' = "raised"
                /\ UNCHANGED <<index, all_items>>
           ELSE /\ all_items' = merge_equipment_all(all_items, ex.data)
                /\ index' = index + 1
                /\ pc' = pc
    /\ UNCHANGED <<category, file_addresses, storage, content, sheets, summary_data,
                   items_df, row_count, columns_per_sheet, encodings, result>>

\* After the loop: return on an empty record set, else build items_df.
EquipmentCollected ==
    /\ category = "equipment"
    /\ pc = "running"
    /\ index = Len(file_addresses)
    /\ IF all_items = <<>>
       THEN pc' = "returned" /\ items_df' = items_df
       ELSE pc' = "paging" /\ items_df' = all_items
    /\ UNCHANGED <<category, file_addresses, storage, content, index, sheets,
                   summary_data, all_items, row_count, columns_per_sheet,
                   encodings, result>>

\* Faulty variant: the header is written to the first sheet only.
RECURSIVE add_data_header_once(_, _, _, _, _)
add_data_header_once(ws, df, rc, limit, header) ==
    IF df = <<>> \/ rc >= limit THEN [ws |-> ws, row_count |-> rc]
    ELSE add_data_header_once(Append(ws, DataRow(Head(df))), Tail(df), rc + 1, limit, header)

\* The rows loop of add_data_to_sheet.
RECURSIVE add_rows(_, _, _, _)
add_rows(ws, df, rc, limit) ==
    IF df = <<>> \/ rc >= limit THEN [ws |-> ws, row_count |-> rc]
    ELSE add_rows(Append(ws, DataRow(Head(df))), Tail(df), rc + 1, limit)

\* add_data_to_sheet(df): the header when row_count is 0, then the rows, up to
\* the limit.
add_data_to_sheet(ws, df, rc, limit, header) ==
    add_rows(IF rc = 0 THEN Append(ws, header) ELSE ws, df, rc, limit)

Min(a, b) == IF a <= b THEN a ELSE b

\* One iteration of `while not items_df.empty`.
EquipmentPage ==
    /\ category = "equipment"
    /\ pc = "paging"
    /\ items_df # <<>>
    /\ LET fresh == row_count >= columns_per_sheet
           rc == IF fresh THEN 0 ELSE row_count
           wss == IF fresh THEN Append(sheets, <<>>) ELSE sheets
           split_index == Min(columns_per_sheet - rc, Len(items_df))
           part_df == SubSeq(items_df, 1, split_index)
           r == add_data_to_sheet(wss[Len(wss)], part_df, rc, columns_per_sheet,
                                  Header(all_items))
       IN  /\ items_df' = SubSeq(items_df, split_index + 1, Len(items_df))
           /\ sheets' = [wss EXCEPT ![Len(wss)] = r.ws]
           /\ row_count' = r.row_count
    /\ UNCHANGED <<category, file_addresses, storage, content, index, pc,
                   summary_data, all_items, columns_per_sheet, encodings, result>>

\* The paging loop is over: one summary row for the batch.
EquipmentSummary ==
    /\ category = "equipment"
    /\ pc = "paging"
    /\ items_df = <<>>
    /\ summary_data' = batch_summary(summary_data, "equipment", index, file_addresses)
    /\ pc' = "returned"
    /\ UNCHANGED <<category, file_addresses, storage, content, index, sheets,
                   all_items, items_df, row_count, columns_per_sheet, encodings, result>>

NextJson ==
    \/ ProcessLinkFile
    \/ LinkBuild
    \/ ProcessEquipmentFile
    \/ EquipmentCollected
    \/ EquipmentPage
    \/ EquipmentSummary

SpecJson == InitJson /\ [][NextJson]_vars

-----------------------------------------------------------------------------
(* process_equipment_files on batches of one well-formed file, large enough
   for several sheets *)

\* k distinct items.
Items(k) == [n \in 1..k |-> "seq" :> Num(<<n>>)]

\* Well-formed equipment lines with 1, 2, 5 and 10 items.
PagingLines ==
    {Line(TRUE, <<>>, TRUE, MstFull @@ NodeX, ItemList(Items(k))) : k \in {1, 2, 5, 10}}

InitPaging ==
    /\ category = "equipment"
    /\ file_addresses = <<"p1">>
    /\ storage = {"p1"}
    /\ \E l \in SeqsUpTo(PagingLines, 3) :
          content = [p \in Paths |-> [lines |-> IF p = "p1" THEN l ELSE <<>>]]
    /\ index = 0
    /\ pc = "running"
    /\ sheets = << <<>> >>
    /\ summary_data = <<>>
    /\ all_items = <<>>
    /\ items_df = <<>>
    /\ row_count = 0
    /\ columns_per_sheet \in 1..MaxThreshold
    /\ encodings = DefaultEncodings
    /\ result = [status |-> "none", enc |-> "none"]

NextPaging ==
    \/ ProcessEquipmentFile
    \/ EquipmentCollected
    \/ EquipmentPage
    \/ EquipmentSummary

SpecPaging == InitPaging /\ [][NextPaging]_vars

-----------------------------------------------------------------------------
(* process_equipment_files on files with payloads of unexpected shape *)

GoodLine == Line(TRUE, <<>>, TRUE, MstFull @@ NodeX, ItemList(<<ItemA1>>))

\* Valid JSON whose messageSendTime has no T, two T's or is a number, and
\* valid JSON whose items is a number or a list of numbers.
FaultLines ==
    { Line(TRUE, <<>>, TRUE, MstNoT, ItemList(<<ItemA1>>)),
      Line(TRUE, <<>>, TRUE, MstTwoT, ItemList(<<ItemA1>>)),
      Line(TRUE, <<>>, TRUE, MstNum, ItemList(<<ItemA1>>)),
      Line(TRUE, <<>>, TRUE, MstFull, ItemScalar),
      Line(TRUE, <<>>, TRUE, MstFull, ItemValues(<<Num(<<"1">>)>>)) }

InitFaults ==
    /\ category = "equipment"
    /\ file_addresses \in {<<"p1">>, <<"p1", "p2">>}
    /\ storage = Range(file_addresses)
    /\ content \in [Paths -> {[lines |-> l] : l \in SeqsUpTo(FaultLines \cup {GoodLine}, 2)}]
    /\ \A p \in Paths \ storage : content[p].lines = <<>>
    /\ index = 0
    /\ pc = "running"
    /\ sheets = << <<>> >>
    /\ summary_data = <<[kind |-> "prior"]>>
    /\ all_items = <<>>
    /\ items_df = <<>>
    /\ row_count = 0
    /\ columns_per_sheet \in 1..MaxJsonThreshold
    /\ encodings = DefaultEncodings
    /\ result = [status |-> "none", enc |-> "none"]

NextFaults ==
    \/ ProcessEquipmentFile
    \/ EquipmentCollected
    \/ EquipmentPage
    \/ EquipmentSummary

SpecFaults == InitFaults /\ [][NextFaults]_vars

-----------------------------------------------------------------------------
(* Claims on the HTML and syslog/text extractors *)

Processed(j) == j \in 1..index

RowsOf(j) == {r \in 1..Len(sheets[1]) :
                 sheets[1][r].kind = "data" /\ sheets[1][r].src = j}

\* C1: in the HTML and syslog/text extractors a fault of one file (all
\* encodings fail, the file is missing when read, any other error) is
\* confined to that file: the extractor never raises to its caller, so
\* every later file of the batch is still processed.
C1_FaultConfined ==
    category \in {"html", "log"} => pc # "raised"

\* C2: in the HTML and syslog/text extractors, whenever the next file is
\* about to start (and when the extractor has ended), every file whose
\* processing attempt is over no longer exists in storage, whatever the
\* outcome of the attempt was.
C2_DeletedBeforeNext ==
    category \in {"html", "log"} =>
        \A j \in 1..index : file_addresses[j] \notin storage

\* C2 witness: the third file is about to start after one attempt that
\* faulted while appending and one that found no match.
C2_Witness ==
    /\ category \in {"html", "log"}
    /\ pc = "running"
    /\ index = 2
    /\ Len(file_addresses) = 3
    /\ \E e \in Range(content[file_addresses[1]].events) : ~e.legal
    /\ content[file_addresses[2]].events = <<>>
    /\ storage = {}

\* C4: in the HTML and syslog/text extractors a file with zero pattern
\* matches adds no row and no summary entry; after a batch in which every
\* file has zero matches the sheet holds the header row only and the
\* summary is as it was handed in.
C4_ZeroMatch ==
    category \in {"html", "log"} =>
        /\ \A j \in 1..index :
              findall(content[file_addresses[j]]) = <<>> =>
                  /\ RowsOf(j) = {}
                  /\ \A s \in 1..Len(summary_data) :
                        summary_data[s].kind # "prior" => summary_data[s].index # j
        /\ (/\ pc = "returned"
            /\ \A j \in 1..Len(file_addresses) :
                  findall(content[file_addresses[j]]) = <<>>)
           => /\ sheets[1] \in {<<HtmlHeader>>, <<SyslogHeader>>}
              /\ summary_data \in PriorSummaries

\* C4 witness: a batch of two different files without matches has returned,
\* with the summary it was handed still in place.
C4_Witness ==
    /\ category \in {"html", "log"}
    /\ pc = "returned"
    /\ Len(file_addresses) = 2
    /\ file_addresses[1] # file_addresses[2]
    /\ \A j \in 1..2 : findall(content[file_addresses[j]]) = <<>>
    /\ summary_data # <<>>

\* C5: for every HTML file, the rows it contributes to the event-log sheet
\* are in non-decreasing numeric entry id order (3 before 12).
C5_NumericOrder ==
    category = "html" =>
        \A j \in 1..index : \A a, b \in RowsOf(j) :
            a < b => StrToInt(sheets[1][a].key) <= StrToInt(sheets[1][b].key)

-----------------------------------------------------------------------------
(* Claims on the reader *)

FirstValid(encs, valid) ==
    {k \in 1..Len(encs) : encs[k] \in valid /\ \A j \in 1..(k - 1) : encs[j] \notin valid}

-----------------------------------------------------------------------------
(* Claims on the link and equipment extractors *)

Json == category \in {"link", "equipment"}

\* C3: for the link and equipment categories too, every source file of the
\* batch is deleted from storage by the time its extractor finishes.
C3_JsonFilesDeleted ==
    (Json /\ pc = "returned") =>
        \A j \in 1..Len(file_addresses) : file_addresses[j] \notin storage

Malformed(line) == line.brace /\ ~line.json

WithoutMalformed(lines) == SelectSeq(lines, LAMBDA l : ~Malformed(l))

Extracted(lines) ==
    IF category = "link" THEN extract_link_data(lines) ELSE extract_equipment_data(lines)

\* The records of the first n files of the batch, each file taken without
\* its malformed lines.
RECURSIVE CollectedWithoutMalformed(_)
CollectedWithoutMalformed(n) ==
    IF n = 0 THEN <<>>
    ELSE LET json_data == Extracted(WithoutMalformed(content[file_addresses[n]].lines)).data
             before == CollectedWithoutMalformed(n - 1)
         IN  IF category = "link" THEN merge_all(before, json_data)
             ELSE merge_equipment_all(before, json_data)

\* C8: in the link and equipment extractors a line whose brace fragment is
\* not valid JSON contributes no record, and the extractor does with the
\* other lines and the other files exactly what it does when the malformed
\* lines are not there: the same records in the same order, and it raises
\* only where it would raise without them.
C8_MalformedSkipped ==
    Json =>
        /\ all_items = CollectedWithoutMalformed(index)
        /\ pc = "raised" =>
              Extracted(WithoutMalformed(content[file_addresses[index + 1]].lines)).exc # "none"

\* C8 witness: a file with a malformed line before a line that yields
\* records, followed by another file, all read to the end.
C8_Witness ==
    /\ Json
    /\ pc = "returned"
    /\ Len(file_addresses) = 2
    /\ LET l1 == content[file_addresses[1]].lines
       IN  /\ Len(l1) = 2
           /\ Malformed(l1[1])
           /\ Extracted(<<l1[2]>>).data # <<>>
    /\ file_addresses[2] # file_addresses[1]
    /\ Len(all_items) >= 3

LinkQualifies(line) == line.brace /\ line.stamp # <<>> /\ line.json

ItemsOf(line) == IF line.items.kind = "list" THEN line.items.list ELSE <<>>

\* The (line, position in its items array) pairs, in order, of the lines of
\* a file that have the INFO prefix and a valid payload.
RECURSIVE LinkOriginsOfLines(_)
LinkOriginsOfLines(lines) ==
    IF lines = <<>> THEN <<>>
    ELSE (IF LinkQualifies(Head(lines))
          THEN [n \in 1..Len(ItemsOf(Head(lines))) |-> [line |-> Head(lines), n |-> n]]
          ELSE <<>>)
         \o LinkOriginsOfLines(Tail(lines))

RECURSIVE LinkOrigins(_)
LinkOrigins(n) ==
    IF n = 0 THEN <<>>
    ELSE LinkOrigins(n - 1) \o LinkOriginsOfLines(content[file_addresses[n]].lines)

\* Record r is what item o.n of line o.line must become: Date and Time of
\* the line's prefix, the parent's value for every parent field outside
\* `excluded`, and the item's own value for the keys only the item has.
LinkCarries(r, o, excluded) ==
    LET item == ItemsOf(o.line)[o.n]
        parent == o.line.fields
    IN  /\ {"Date", "Time"} \subseteq DOMAIN r
        /\ r["Date"] = Str(<<o.line.stamp[1]>>)
        /\ r["Time"] = Str(<<o.line.stamp[3]>>)
        /\ \A k \in DOMAIN parent \ excluded : k \in DOMAIN r /\ r[k] = parent[k]
        /\ \A k \in DOMAIN item \ (DOMAIN parent \cup {"Date", "Time"}) :
              k \in DOMAIN r /\ r[k] = item[k]

EquipQualifies(line) ==
    line.brace /\ line.json /\ "messageSendTime" \in DOMAIN line.fields

RECURSIVE EquipOriginsOfLines(_)
EquipOriginsOfLines(lines) ==
    IF lines = <<>> THEN <<>>
    ELSE (IF EquipQualifies(Head(lines))
          THEN [n \in 1..Len(ItemsOf(Head(lines))) |-> [line |-> Head(lines), n |-> n]]
          ELSE <<>>)
         \o EquipOriginsOfLines(Tail(lines))

RECURSIVE EquipOrigins(_)
EquipOrigins(n) ==
    IF n = 0 THEN <<>>
    ELSE EquipOrigins(n - 1) \o EquipOriginsOfLines(content[file_addresses[n]].lines)

NoSendTime(line) ==
    line.brace /\ line.json /\ "messageSendTime" \notin DOMAIN line.fields

\* C10 as stated: in the equipment extractor a valid payload without
\* messageSendTime still contributes its items, as records without Date and
\* Time.
C10_NoSendTimeKept ==
    category = "equipment" =>
        \A j \in 1..index : \A l \in Range(content[file_addresses[j]].lines) :
            (NoSendTime(l) /\ ItemsOf(l) # <<>>) =>
                \E m \in 1..Len(all_items) :
                    /\ "Date" \notin DOMAIN all_items[m]
                    /\ "Time" \notin DOMAIN all_items[m]
                    /\ \A k \in DOMAIN l.fields : k \in DOMAIN all_items[m]

\* C10 as amended: a valid payload without messageSendTime contributes no
\* record (and nothing falls back to the line prefix): the records are, in
\* order, the items of the payloads that have messageSendTime, and each has
\* Date and Time taken from that field.
C10_SendTimeRequired ==
    category = "equipment" =>
        LET o == EquipOrigins(index)
        IN  /\ Len(all_items) = Len(o)
            /\ \A m \in 1..Len(o) :
                  LET mst == Split(o[m].line.fields["messageSendTime"].text, "T")
                  IN  /\ {"Date", "Time", "messageSendTime"} \subseteq DOMAIN all_items[m]
                      /\ all_items[m]["Date"] = Str(mst[1])
                      /\ all_items[m]["Time"].text = <<mst[2][1]>>

\* C10 witness: a file with a payload without messageSendTime and a payload
\* with it has been read, and only the second gave records.
C10_Witness ==
    /\ category = "equipment"
    /\ pc = "returned"
    /\ Len(file_addresses) = 1
    /\ LET l == content[file_addresses[1]].lines
       IN  /\ Len(l) = 2
           /\ NoSendTime(l[1]) /\ ItemsOf(l[1]) # <<>>
           /\ EquipQualifies(l[2])
    /\ Len(all_items) = 2

CeilDiv(n, t) == (n + t - 1) \div t

DataRows(ws) == SelectSeq(ws, LAMBDA r : r.kind = "data")

RECURSIVE AllDataRows(_)
AllDataRows(wss) ==
    IF wss = <<>> THEN <<>> ELSE DataRows(Head(wss)) \o AllDataRows(Tail(wss))

C6_ExactFit ==
    /\ category = "equipment"
    /\ pc = "returned"
    /\ Len(all_items) = columns_per_sheet
    /\ columns_per_sheet >= 2
    /\ Len(sheets) = 1

-----------------------------------------------------------------------------
(* Further claims on the HTML and syslog/text extractors *)

\* C11: for every syslog/text file, the rows it contributes to the syslog
\* sheet are in non-decreasing lexical order of their timestamp text, and
\* the sheet is the header followed by the per-file blocks in the order the
\* files were processed: no row of an earlier file comes after a row of a
\* later one.
C11_LexicalBlocks ==
    category = "log" =>
        /\ sheets[1][1] = SyslogHeader
        /\ \A a, b \in 2..Len(sheets[1]) :
              a < b =>
                  /\ sheets[1][a].src <= sheets[1][b].src
                  /\ sheets[1][a].src = sheets[1][b].src =>
                        LexLeq(sheets[1][a].key, sheets[1][b].key)

\* C11 witness: the first file has its matches in the order "3", "12" and
\* its rows stand in the order "12", "3"; the rows of a second file follow.
C11_Witness ==
    /\ category = "log"
    /\ pc = "returned"
    /\ Len(file_addresses) = 2
    /\ Len(content[file_addresses[1]].events) = 2
    /\ content[file_addresses[1]].events[1].key = <<3>>
    /\ Len(sheets[1]) = 4
    /\ sheets[1][2].key = <<1, 2>> /\ sheets[1][2].src = 1
    /\ sheets[1][3].key = <<3>> /\ sheets[1][3].src = 1
    /\ sheets[1][4].src = 2

SummaryEntriesOf(j) ==
    {s \in 1..Len(summary_data) :
        summary_data[s].kind # "prior" /\ summary_data[s].index = j}

\* C12: after the HTML or syslog/text extractor has handled a file, the
\* file has a summary entry if and only if at least one of its rows is in
\* the sheet, and it never has more than one entry; so a file whose
\* processing faults, also while its rows are being appended, leaves no
\* row in the sheet.
C12_SummaryIffRows ==
    category \in {"html", "log"} =>
        \A j \in 1..index :
            /\ Cardinality(SummaryEntriesOf(j)) <= 1
            /\ SummaryEntriesOf(j) # {} <=> RowsOf(j) # {}

-----------------------------------------------------------------------------
(* Further claims on the link and equipment extractors *)

\* C13: in the equipment extractor every fault raised while handling one
\* line is caught at line granularity: a valid payload whose messageSendTime
\* does not split into exactly a date and a time on T, or whose items is
\* not a list of objects, only makes that line be skipped; the extractor
\* never raises to its caller.
C13_LineFaultsCaught ==
    category = "equipment" => pc # "raised"

Prior == <<[kind |-> "prior"]>>

\* C14: the link and equipment extractors append to the summary exactly one
\* row per batch when the batch yields at least one record, the row being
\* [number of files of the batch, name of its last file], and append
\* nothing and write no header and no row when the record set is empty;
\* nothing is appended per file while the batch is being read.
C14_OneRowPerBatch ==
    Json =>
        /\ pc \in {"running", "paging", "raised"} => summary_data = Prior
        /\ (pc = "returned" /\ all_items = <<>>) =>
              /\ summary_data = Prior
              /\ sheets = << <<>> >>
        /\ (pc = "returned" /\ all_items # <<>>) =>
              /\ Len(summary_data) = Len(Prior) + 1
              /\ SubSeq(summary_data, 1, Len(Prior)) = Prior
              /\ summary_data[Len(summary_data)] =
                    [kind |-> category, index |-> Len(file_addresses),
                     filename |-> file_addresses[Len(file_addresses)]]

\* C14 witness: a batch of two different files, both with records, has
\* returned with one summary row naming two files and the second file.
C14_Witness ==
    /\ Json
    /\ pc = "returned"
    /\ file_addresses = <<"p1", "p2">>
    /\ Extracted(content["p1"].lines).data # <<>>
    /\ Len(all_items) >= 3
    /\ Len(summary_data) = 2
    /\ summary_data[2].index = 2
    /\ summary_data[2].filename = "p2"

\* C14 second case: a batch of two files without any record has returned
\* and left the summary and the sheet as they were.
C14_EmptyBatch ==
    /\ Json
    /\ pc = "returned"
    /\ Len(file_addresses) = 2
    /\ all_items = <<>>
    /\ summary_data = Prior
    /\ sheets = << <<>> >>

=============================================================================
